---- MODULE Spec2Model ----
(***************************************************************************)
(* All-In Margin calculator (src/app.py): the amortization schedule, the   *)
(* ad-hoc payment lookup, the yield decomposition, the validator and the   *)
(* /calculate request handler.                                             *)
(*                                                                         *)
(* Numbers.  The program computes in IEEE doubles and rounds stored values *)
(* to 6 decimals.  Here a money amount is an integer number of ticks, five *)
(* ticks to 0.000001 currency units, so an amount that is not a multiple   *)
(* of 0.000001 exists and round(x, 6) is a real operation.  A rate is an   *)
(* integer number of hundredths (4 is 0.04).  A division rounds to the     *)
(* nearest tick, which stands for the double's own (far smaller) error.    *)
(***************************************************************************)
EXTENDS Integers, Sequences, FiniteSets, TLC

(***************************************************************************)
(* Bounds of the model.                                                    *)
(***************************************************************************)
MaxPeriods == 3
MaxAdhocRows == 2
MaxTableLen == 3

(***************************************************************************)
(* Arithmetic helpers.                                                     *)
(***************************************************************************)
Abs(x) == IF x < 0 THEN -x ELSE x

Min(a, b) == IF a <= b THEN a ELSE b

Max(a, b) == IF a >= b THEN a ELSE b

\* a / b to the nearest integer, b # 0 (floating-point division, at the
\* resolution of the fixed-point scale in use).
DivRound(a, b) ==
    IF b > 0 THEN (2 * a + b) \div (2 * b)
    ELSE (2 * (-a) + (-b)) \div (2 * (-b))

\* a * b / c to the nearest integer, c > 0, computed without forming a * b
\* (a may be a large amount; b and c are small).
MulDiv(a, b, c) == (a \div c) * b + DivRound((a % c) * b, c)

RECURSIVE ScaledFraction(_, _, _)
\* r / t * 10^k for 0 <= r < t, the last digit rounded.
ScaledFraction(r, t, k) ==
    IF k = 0 THEN (IF 2 * r >= t THEN 1 ELSE 0)
    ELSE ((r * 10) \div t) * (10 ^ (k - 1)) + ScaledFraction((r * 10) % t, t, k - 1)

\* a / t in units of 0.0001, for a >= 0 and t # 0.
Ratio(a, t) ==
    IF t > 0 THEN (a \div t) * 10000 + ScaledFraction(a % t, t, 4)
    ELSE -((a \div (-t)) * 10000 + ScaledFraction(a % (-t), -t, 4))

\* round(x, 6): the nearest multiple of 0.000001 (five ticks).
Round6(x) ==
    LET m == x % 5
    IN  IF m <= 2 THEN x - m ELSE x + (5 - m)

\* round(x, 2): the nearest multiple of 0.01 (50000 ticks), ties to even.
Round2(x) ==
    LET m == x % 50000
        lo == x - m
    IN  IF m < 25000 THEN lo
        ELSE IF m > 25000 THEN lo + 50000
        ELSE IF (lo \div 50000) % 2 = 0 THEN lo ELSE lo + 50000

RECURSIVE SumSeq(_)
SumSeq(s) == IF s = <<>> THEN 0 ELSE Head(s) + SumSeq(Tail(s))

(***************************************************************************)
(* Date helpers (lines 26-38).  A date is [y, m, d]; a disbursement_date   *)
(* string that strptime rejects is one whose month or day does not exist.  *)
(***************************************************************************)
IsLeap(y) == (y % 4 = 0 /\ y % 100 # 0) \/ y % 400 = 0

DaysInMonth(y, m) ==
    IF m = 2 THEN (IF IsLeap(y) THEN 29 ELSE 28)
    ELSE IF m \in {4, 6, 9, 11} THEN 30 ELSE 31

\* parse_date succeeds exactly on a real calendar date.
parse_date_ok(s) ==
    /\ s.m \in 1..12
    /\ s.d >= 1
    /\ s.d <= DaysInMonth(s.y, s.m)

\* relativedelta(months = k): add calendar months, clamp the day to the
\* last day of the target month.
period_date(start, period, frequency_months) ==
    LET k  == (start.m - 1) + period * frequency_months
        y  == start.y + (k \div 12)
        m  == (k % 12) + 1
    IN  [y |-> y, m |-> m, d |-> Min(start.d, DaysInMonth(y, m))]

RECURSIVE DaysBeforeMonth(_, _)
DaysBeforeMonth(y, m) ==
    IF m = 1 THEN 0 ELSE DaysInMonth(y, m - 1) + DaysBeforeMonth(y, m - 1)

RECURSIVE DaysBeforeYear(_)
DaysBeforeYear(y) ==
    IF y <= 2000 THEN 0
    ELSE (IF IsLeap(y - 1) THEN 366 ELSE 365) + DaysBeforeYear(y - 1)

\* The day number of a date (days since 2000-01-01).
ToOrdinal(dt) == DaysBeforeYear(dt.y) + DaysBeforeMonth(dt.y, dt.m) + dt.d

days_between(d1, d2) == ToOrdinal(d2) - ToOrdinal(d1)

(***************************************************************************)
(* Amortization profile: adhoc_payment (lines 45-72).  adhoc_table is a    *)
(* sequence of rows [month, value].                                        *)
(***************************************************************************)
RECURSIVE InsertRow(_, _)
\* One step of Python's stable sort: r goes after every row whose month is
\* not greater than its own.
InsertRow(s, r) ==
    IF s = <<>> THEN <<r>>
    ELSE IF Head(s).month <= r.month THEN <<Head(s)>> \o InsertRow(Tail(s), r)
    ELSE <<r>> \o s

\* adhoc_payment without the sort of line 59.
SortedByMonthOmitted(t) == t

RECURSIVE SortedByMonth(_)
\* sorted(adhoc_table, key = month) (line 59): stable, rows of equal month
\* keep the order they have in the table.
SortedByMonth(t) ==
    IF t = <<>> THEN <<>>
    ELSE InsertRow(SortedByMonth(SubSeq(t, 1, Len(t) - 1)), t[Len(t)])

RECURSIVE ScanApplicableStrict(_, _, _)
\* The loop with row["month"] < period_months in place of <=.
ScanApplicableStrict(rows, period_months, applicable) ==
    IF rows = <<>> THEN applicable
    ELSE IF Head(rows).month < period_months
         THEN ScanApplicableStrict(Tail(rows), period_months, <<Head(rows)>>)
         ELSE applicable

RECURSIVE ScanApplicable(_, _, _)
\* The loop of lines 58-63 over the rows still to visit: applicable is <<>>
\* (None) or <<row>>; the first row past period_months breaks the loop.
ScanApplicable(rows, period_months, applicable) ==
    IF rows = <<>> THEN applicable
    ELSE IF Head(rows).month <= period_months
         THEN ScanApplicable(Tail(rows), period_months, <<Head(rows)>>)
         ELSE applicable

\* loan_amount * (value / 100.0) (line 70).
PercentOf(loan_amount, value) == MulDiv(loan_amount, value, 100)

adhoc_payment(loan_amount, period_months, adhoc_table, use_percent) ==
    IF adhoc_table = <<>> THEN 0
    ELSE LET applicable ==
                 ScanApplicable(SortedByMonth(adhoc_table), period_months, <<>>)
         IN  IF applicable = <<>> THEN 0
             ELSE IF use_percent
                  THEN PercentOf(loan_amount, applicable[1].value)
                  ELSE applicable[1].value

(***************************************************************************)
(* Request parameters.  params is the merged dictionary of line 362; the   *)
(* keys in params.absent are not in it.                                    *)
(***************************************************************************)
FreqMonths == [Monthly |-> 1, Quarterly |-> 3, Semiannually |-> 6]

Multiplier == [Monthly |-> 12, Quarterly |-> 4, Semiannually |-> 2]

Get(params, key, default) ==
    IF key \in params.absent THEN default ELSE params[key]

\* The keys build_schedule reads with params[...] (lines 85-97), in order.
RequiredKeys ==
    << "loan_amount", "num_periods", "draw_period", "frequency",
       "margin_draw", "margin_after", "disbursement_date",
       "amortization_profile" >>

\* The exception calculate's try block raises before the loop starts, as the
\* text of its message; "" when none is raised (lines 364, 85-102).
InputError(params) ==
    IF "frequency" \in params.absent THEN "'frequency'"
    ELSE IF params.frequency \notin DOMAIN FreqMonths THEN params.frequency
    ELSE IF \E i \in 1..Len(RequiredKeys) : RequiredKeys[i] \in params.absent
         THEN RequiredKeys[CHOOSE i \in 1..Len(RequiredKeys) :
                  /\ RequiredKeys[i] \in params.absent
                  /\ \A j \in 1..(i - 1) : RequiredKeys[j] \notin params.absent]
    ELSE IF ~parse_date_ok(params.disbursement_date)
         THEN "time data does not match format '%Y-%m-%d'"
    ELSE ""

(***************************************************************************)
(* build_schedule (lines 79-214).                                          *)
(***************************************************************************)
freq_months(params) == FreqMonths[params.frequency]

grace_periods(params) == Get(params, "grace_periods", params.num_periods)

periods_per_year(params) == 12 \div freq_months(params)

\* mortgage_r (line 111), in units of 0.0001.
mortgage_r(params) ==
    IF params.amortization_profile = "Mortgage"
    THEN DivRound(Get(params, "mortgage_rate", 0) * 100, periods_per_year(params))
    ELSE 0

\* round(a / b) of Python for a >= 0, b > 0: ties go to the even integer.
PyRound(a, b) ==
    LET q == a \div b
        r == a % b
    IN  IF 2 * r < b THEN q
        ELSE IF 2 * r > b THEN q + 1
        ELSE IF q % 2 = 0 THEN q ELSE q + 1

\* n_amort (line 112); mortgage_amort_years is held in twelfths of a year.
n_amort(params) ==
    PyRound(Get(params, "mortgage_amort_years", 0) * periods_per_year(params), 12)

RECURSIVE PowFix(_, _)
\* x ** n for x in units of 0.0001.
PowFix(x, n) == IF n = 0 THEN 10000 ELSE DivRound(x * PowFix(x, n - 1), 10000)

\* mortgage_pmt (lines 105-117).
mortgage_pmt(params) ==
    IF params.amortization_profile # "Mortgage" THEN 0
    ELSE IF n_amort(params) <= 0 THEN 0
    ELSE IF mortgage_r(params) > 0
         THEN LET discount == DivRound(10000 * 10000,
                                  PowFix(10000 + mortgage_r(params), n_amort(params)))
              IN  MulDiv(params.loan_amount, mortgage_r(params), 10000 - discount)
         ELSE DivRound(params.loan_amount, n_amort(params))

\* Period 0: the initial draw (lines 128-138).
Row0(params) ==
    [ period         |-> 0,
      date           |-> period_date(params.disbursement_date, 0, freq_months(params)),
      days           |-> 0,
      beginning_bal  |-> 0,
      draws          |-> params.loan_amount,
      amortization   |-> 0,
      interest       |-> 0,
      upfront_fee    |-> MulDiv(params.loan_amount,
                                Get(params, "upfront_fee_rate", 0), 100),
      commitment_fee |-> 0,
      ending_bal     |-> params.loan_amount ]

\* The margin of period p (lines 151-157).
Margin(params, p) ==
    (IF p <= params.draw_period THEN params.margin_draw ELSE params.margin_after)
    + (IF Get(params, "step_up_period", 0) > 0 /\ p >= Get(params, "step_up_period", 0)
       THEN Get(params, "step_up", 0) ELSE 0)

\* Interest accrual before rounding (lines 159-163).
Interest(params, p, beginning_bal, days) ==
    IF p <= grace_periods(params) /\ beginning_bal > 0
    THEN MulDiv(MulDiv(beginning_bal, Margin(params, p), 100), days, 360)
    ELSE 0

\* The fee charged on the whole commitment instead of the undrawn part.
CommitFeeOnCommitment(params, p, beginning_bal, days) ==
    IF p <= params.draw_period
    THEN MulDiv(MulDiv(Max(params.loan_amount, 0),
                       Get(params, "commitment_fee_rate", 0), 100), days, 360)
    ELSE 0

\* Commitment fee before rounding (lines 169-174).
CommitFee(params, p, beginning_bal, days) ==
    IF p <= params.draw_period
    THEN LET undrawn == Max(params.loan_amount - beginning_bal, 0)
         IN  MulDiv(MulDiv(undrawn, Get(params, "commitment_fee_rate", 0), 100),
                    days, 360)
    ELSE 0

\* The Mortgage branch without the cap min(., beginning_bal).
MortgageAmortUncapped(params, p, beginning_bal) ==
    IF p <= params.draw_period THEN 0
    ELSE IF p = params.num_periods THEN beginning_bal
    ELSE Max(0, mortgage_pmt(params) - MulDiv(beginning_bal, mortgage_r(params), 10000))

\* The Mortgage branch (lines 193-202).
MortgageAmort(params, p, beginning_bal) ==
    IF p <= params.draw_period THEN 0
    ELSE IF p = params.num_periods THEN beginning_bal
    ELSE LET mort_interest == MulDiv(beginning_bal, mortgage_r(params), 10000)
         IN  Max(0, Min(mortgage_pmt(params) - mort_interest, beginning_bal))

\* The Bullet branch repaying one period early.
BulletAmortEarly(params, p, beginning_bal) ==
    IF p = params.num_periods - 1 THEN beginning_bal ELSE 0

\* The Bullet branch (lines 178-182).
BulletAmort(params, p, beginning_bal) ==
    IF p = params.num_periods THEN beginning_bal ELSE 0

\* The Ad-hoc branch (lines 183-192).
AdhocAmort(params, p, p_date, beginning_bal) ==
    LET disburse_dt == params.disbursement_date
        period_months_offset ==
            (p_date.y - disburse_dt.y) * 12 + (p_date.m - disburse_dt.m)
    IN  Min(adhoc_payment(params.loan_amount, period_months_offset,
                          Get(params, "adhoc_table", <<>>),
                          Get(params, "adhoc_use_percent", TRUE)),
            beginning_bal)

\* Amortization of period p >= 1 before rounding (lines 177-204).
Amortization(params, p, p_date, beginning_bal) ==
    IF params.amortization_profile = "Bullet"
    THEN BulletAmort(params, p, beginning_bal)
    ELSE IF params.amortization_profile = "Ad-hoc"
    THEN AdhocAmort(params, p, p_date, beginning_bal)
    ELSE IF params.amortization_profile = "Mortgage"
    THEN MortgageAmort(params, p, beginning_bal)
    ELSE 0

\* ending_bal of a period p >= 1 (lines 208-209).
EndingBal(beginning_bal, draws, amort) ==
    Round6(Max(beginning_bal + draws - amort, 0))

\* The row of period p >= 1, given the running balance (lines 140-210).
RowN(params, p, balance) ==
    LET p_date    == period_date(params.disbursement_date, p, freq_months(params))
        prev_date == period_date(params.disbursement_date, p - 1, freq_months(params))
        days      == days_between(prev_date, p_date)
        amort     == Amortization(params, p, p_date, balance)
    IN  [ period         |-> p,
          date           |-> p_date,
          days           |-> days,
          beginning_bal  |-> balance,
          draws          |-> 0,
          amortization   |-> Round6(amort),
          interest       |-> Round6(Interest(params, p, balance, days)),
          upfront_fee    |-> 0,
          commitment_fee |-> Round6(CommitFee(params, p, balance, days)),
          ending_bal     |-> EndingBal(balance, 0, amort) ]

\* The loop running over range(num_periods + 2).
LoopDoneOneLate(params, p) == p > params.num_periods + 1

\* range(num_periods + 1) is exhausted (line 122).
LoopDone(params, p) == p > params.num_periods

\* One iteration of the loop of line 122.
ScheduleRow(params, p, balance) ==
    IF p = 0 THEN Row0(params) ELSE RowN(params, p, balance)

(***************************************************************************)
(* Cash flow arrays and IRR (lines 221-279).  A rate of return is an       *)
(* integer number of ticks, five ticks to 0.00000001, so that rate * 100   *)
(* is a percentage in ticks of which round(., 6) keeps the multiples of 5. *)
(***************************************************************************)
RowCashflows(row) ==
    LET cf_base == row.interest + row.amortization - row.draws
    IN  [ T |-> cf_base,
          U |-> cf_base + row.upfront_fee,
          V |-> cf_base + row.upfront_fee + row.commitment_fee ]

build_cashflow_arrays(schedule) ==
    [ T |-> [i \in 1..Len(schedule) |-> RowCashflows(schedule[i]).T],
      U |-> [i \in 1..Len(schedule) |-> RowCashflows(schedule[i]).U],
      V |-> [i \in 1..Len(schedule) |-> RowCashflows(schedule[i]).V] ]

\* annualized_irr (lines 245-257).  npf.irr is a library root finder: what it
\* answers for a series that is not all zero is the outcome `solved`, one of
\* [kind |-> "nan"] (no root: nan or None), [kind |-> "raise"] (an exception)
\* and [kind |-> "rate", rate |-> r].
annualized_irr(cashflows, frequency, solved) ==
    IF \A i \in 1..Len(cashflows) : cashflows[i] = 0 THEN 0
    ELSE IF solved.kind = "rate" THEN solved.rate * Multiplier[frequency]
    ELSE 0

\* commitment_impact taken against the spread instead of the upfront yield.
CommitmentImpactOverSpread(irr_all_in, irr_with_uf, ir_spread) == irr_all_in - ir_spread

\* commitment_impact (line 272).
CommitmentImpact(irr_all_in, irr_with_uf, ir_spread) == irr_all_in - irr_with_uf

\* calculate_irr_components (lines 260-279); solved holds npf.irr's outcome
\* for each of the three series.
calculate_irr_components(schedule, frequency, solved) ==
    LET cfs         == build_cashflow_arrays(schedule)
        ir_spread   == annualized_irr(cfs.T, frequency, solved.T)
        irr_with_uf == annualized_irr(cfs.U, frequency, solved.U)
        irr_all_in  == annualized_irr(cfs.V, frequency, solved.V)
        upfront_impact    == irr_with_uf - ir_spread
        commitment_impact == CommitmentImpact(irr_all_in, irr_with_uf, ir_spread)
    IN  [ ir_spread         |-> Round6(ir_spread),
          upfront_impact    |-> Round6(upfront_impact),
          commitment_impact |-> Round6(commitment_impact),
          all_in_margin     |-> Round6(irr_all_in) ]

(***************************************************************************)
(* Weighted average life (lines 286-302), in units of 0.0001 year.         *)
(***************************************************************************)
calculate_wal(schedule, frequency_months) ==
    LET total_amort == SumSeq([i \in 1..Len(schedule) |-> schedule[i].amortization])
        Term(row) ==
            IF row.amortization > 0
            THEN row.period * frequency_months * Ratio(row.amortization, total_amort)
            ELSE 0
        weighted == SumSeq([i \in 1..Len(schedule) |-> Term(schedule[i])])
    IN  IF total_amort = 0 THEN 0 ELSE DivRound(weighted, 12)

(***************************************************************************)
(* Validation (lines 309-323).                                             *)
(***************************************************************************)
\* neg_bal (line 315): an ending balance below -0.01.
NegBal(schedule) ==
    \E i \in 1..Len(schedule) : schedule[i].ending_bal < -50000

\* draw_ok computed from the amortization total instead of the draws.
DrawOkOnAmortization(schedule, loan_amount) ==
    Abs(SumSeq([i \in 1..Len(schedule) |-> schedule[i].amortization]) - loan_amount)
        <= 5000000

\* draw_ok (line 314): total draws within 1.0 of the loan amount.
DrawOk(schedule, loan_amount) ==
    Abs(SumSeq([i \in 1..Len(schedule) |-> schedule[i].draws]) - loan_amount)
        <= 5000000

validate(schedule, loan_amount) ==
    [ draws_total   |-> Round2(SumSeq([i \in 1..Len(schedule) |-> schedule[i].draws])),
      amort_total   |-> Round2(SumSeq([i \in 1..Len(schedule) |->
                                          schedule[i].amortization])),
      final_balance |-> Round2(schedule[Len(schedule)].ending_bal),
      draw_status   |-> IF DrawOk(schedule, loan_amount) THEN "OK" ELSE "Review Draw",
      balance_ok    |-> ~NegBal(schedule) ]

(***************************************************************************)
(* The /calculate handler (lines 356-396).                                 *)
(***************************************************************************)
\* A schedule row as serialized for display (lines 373-385).
DisplayRow(row) ==
    [ period         |-> row.period,
      date           |-> row.date,
      days           |-> row.days,
      beginning_bal  |-> Round2(row.beginning_bal),
      draws          |-> Round2(row.draws),
      amortization   |-> Round2(row.amortization),
      interest       |-> Round2(row.interest),
      upfront_fee    |-> Round2(row.upfront_fee),
      commitment_fee |-> Round2(row.commitment_fee),
      ending_bal     |-> Round2(row.ending_bal) ]

SuccessResponse(params, schedule, solved) ==
    [ success    |-> TRUE,
      schedule   |-> [i \in 1..Len(schedule) |-> DisplayRow(schedule[i])],
      irr        |-> calculate_irr_components(schedule, params.frequency, solved),
      wal        |-> calculate_wal(schedule, freq_months(params)),
      validation |-> validate(schedule, params.loan_amount) ]

FailureResponse(message) == [ success |-> FALSE, error |-> message ]

(***************************************************************************)
(* State.  params, pc, p, balance, schedule and response are one           *)
(* /calculate request: its merged parameters, where the handler stands,    *)
(* the loop variables of build_schedule and the response sent.  lookup and *)
(* payment are one call of adhoc_payment and what it returned.             *)
(***************************************************************************)
VARIABLES params, pc, p, balance, schedule, response, lookup, payment

vars == << params, pc, p, balance, schedule, response, lookup, payment >>

(***************************************************************************)
(* Inputs.                                                                 *)
(***************************************************************************)
\* Loan amounts in ticks: 2.0, 2.0000004 (not a multiple of 0.000001), 0
\* and -2.0; the handler accepts every number.
LoanAmounts == {-10000000, 0, 10000000, 10000002}

Frequencies == {"Monthly", "Quarterly", "Semiannually"}

Profiles == {"Bullet", "Ad-hoc", "Mortgage"}

\* 2024-01-31: month arithmetic clamps the day in February, April, ...
DisbursementDate == [y |-> 2024, m |-> 1, d |-> 31]

\* Margins, step-up and grace periods; keys named in absent take the
\* defaults of params.get.
RatePlans ==
    { [margin_draw |-> 4, margin_after |-> 6, step_up |-> 0, step_up_period |-> 0,
       grace_periods |-> 0, absent |-> {"grace_periods", "step_up", "step_up_period"}],
      [margin_draw |-> 0, margin_after |-> 4, step_up |-> 2, step_up_period |-> 2,
       grace_periods |-> 1, absent |-> {}] }

\* Upfront and commitment fee rates (0.01 and 6.0).
FeePlans ==
    { [upfront_fee_rate |-> 0, commitment_fee_rate |-> 0,
       absent |-> {"upfront_fee_rate", "commitment_fee_rate"}],
      [upfront_fee_rate |-> 1, commitment_fee_rate |-> 600, absent |-> {}] }

\* Sequences over S of length at most n.
SeqUpTo(S, n) == UNION { [1..k -> S] : k \in 0..n }

\* Ad-hoc tables of a request: percentages when adhoc_use_percent, amounts
\* in ticks otherwise.
AdhocPlans ==
    { [adhoc_table |-> t, adhoc_use_percent |-> TRUE] :
          t \in SeqUpTo({[month |-> 3, value |-> 40], [month |-> 6, value |-> 70]},
                        MaxAdhocRows) }
    \cup
    { [adhoc_table |-> t, adhoc_use_percent |-> FALSE] :
          t \in SeqUpTo([month : {3, 6}, value : {4000001}], MaxAdhocRows) }

\* Mortgage rates (0 and 0.06) and amortization terms (0, 6 and 12 months).
MortgagePlans == [mortgage_rate : {0, 6}, mortgage_amort_years : {0, 6, 12}]

NoAdhoc == [adhoc_table |-> <<>>, adhoc_use_percent |-> TRUE]

NoMortgage == [mortgage_rate |-> 0, mortgage_amort_years |-> 0]

\* The profile with the parameters only that profile reads.
ProfilePlans ==
    { [amortization_profile |-> "Bullet", adhoc |-> NoAdhoc, mortgage |-> NoMortgage,
       absent |-> {"adhoc_table", "adhoc_use_percent", "mortgage_rate",
                   "mortgage_amort_years"}],
      [amortization_profile |-> "Balloon", adhoc |-> NoAdhoc, mortgage |-> NoMortgage,
       absent |-> {"adhoc_table", "adhoc_use_percent", "mortgage_rate",
                   "mortgage_amort_years"}] }
    \cup
    { [amortization_profile |-> "Ad-hoc", adhoc |-> a, mortgage |-> NoMortgage,
       absent |-> {"mortgage_rate", "mortgage_amort_years"}] : a \in AdhocPlans }
    \cup
    { [amortization_profile |-> "Mortgage", adhoc |-> NoAdhoc, mortgage |-> m,
       absent |-> {"adhoc_table", "adhoc_use_percent"}] : m \in MortgagePlans }

MakeParams(loan, n, d, f, date, rp, fp, pp, missing) ==
    [ loan_amount          |-> loan,
      num_periods          |-> n,
      draw_period          |-> d,
      grace_periods        |-> rp.grace_periods,
      frequency            |-> f,
      margin_draw          |-> rp.margin_draw,
      margin_after         |-> rp.margin_after,
      step_up              |-> rp.step_up,
      step_up_period       |-> rp.step_up_period,
      upfront_fee_rate     |-> fp.upfront_fee_rate,
      commitment_fee_rate  |-> fp.commitment_fee_rate,
      disbursement_date    |-> date,
      amortization_profile |-> pp.amortization_profile,
      adhoc_table          |-> pp.adhoc.adhoc_table,
      adhoc_use_percent    |-> pp.adhoc.adhoc_use_percent,
      mortgage_rate        |-> pp.mortgage.mortgage_rate,
      mortgage_amort_years |-> pp.mortgage.mortgage_amort_years,
      absent               |-> rp.absent \cup fp.absent \cup pp.absent \cup missing ]

\* Requests whose required fields are all there and well formed, except that
\* the profile may be one the program does not know.
CompleteParams ==
    { MakeParams(loan, n, d, f, DisbursementDate, rp, fp, pp, {}) :
          loan \in LoanAmounts, n \in 0..MaxPeriods, d \in 0..MaxPeriods,
          f \in Frequencies, rp \in RatePlans, fp \in FeePlans, pp \in ProfilePlans }

\* Requests with a required field missing, an unknown frequency or a
\* disbursement_date that is no calendar date.
BrokenParams ==
    LET base(f, date, missing, pp) ==
            MakeParams(10000000, 2, 1, f, date,
                       CHOOSE rp \in RatePlans : rp.absent = {},
                       CHOOSE fp \in FeePlans : fp.absent = {}, pp, missing)
        plans == { pp \in ProfilePlans : pp.amortization_profile \in {"Bullet", "Balloon"} }
    IN  { base("Quarterly", DisbursementDate, {k}, pp) :
              k \in { RequiredKeys[i] : i \in 1..Len(RequiredKeys) }, pp \in plans }
        \cup { base("Weekly", DisbursementDate, {}, pp) : pp \in plans }
        \cup { base("Quarterly", [y |-> 2024, m |-> mm, d |-> dd], {}, pp) :
                   mm \in {2, 13}, dd \in {30}, pp \in plans }

(***************************************************************************)
(* The /calculate request as a state machine.                              *)
(***************************************************************************)
NoLookup == [loan_amount |-> 0, period_months |-> 0, adhoc_table |-> <<>>,
             use_percent |-> TRUE]

Pending == FailureResponse("")

Init ==
    /\ params \in CompleteParams \cup BrokenParams
    /\ pc = "request"
    /\ p = 0
    /\ balance = 0
    /\ schedule = <<>>
    /\ response = Pending
    /\ lookup = NoLookup
    /\ payment = 0

\* The try block raises before the loop (lines 364, 85-102): the except
\* clause answers with the message (lines 395-396).
CalculateReject ==
    /\ pc = "request"
    /\ InputError(params) # ""
    /\ response' = FailureResponse(InputError(params))
    /\ pc' = "done"
    /\ UNCHANGED << params, p, balance, schedule, lookup, payment >>

\* The parameters are read and the loop of line 122 is entered.
CalculateBegin ==
    /\ pc = "request"
    /\ InputError(params) = ""
    /\ pc' = "loop"
    /\ p' = 0
    /\ balance' = 0
    /\ schedule' = <<>>
    /\ UNCHANGED << params, response, lookup, payment >>

\* One iteration of the loop (lines 122-212).
BuildRow ==
    /\ pc = "loop"
    /\ ~LoopDone(params, p)
    /\ LET row == ScheduleRow(params, p, balance)
       IN  /\ schedule' = Append(schedule, row)
           /\ balance' = row.ending_bal
    /\ p' = p + 1
    /\ UNCHANGED << params, pc, response, lookup, payment >>

\* npf.irr is a function of the series: equal series get equal outcomes.
SolverConsistent(sched, solved) ==
    LET cfs == build_cashflow_arrays(sched)
    IN  /\ cfs.T = cfs.U => solved.T = solved.U
        /\ cfs.U = cfs.V => solved.U = solved.V
        /\ cfs.T = cfs.V => solved.T = solved.V

\* The schedule is complete: yield, WAL and validation are computed and the
\* success response is sent (lines 367-393).
CalculateRespond(outcomes) ==
    /\ pc = "loop"
    /\ LoopDone(params, p)
    /\ \E solved \in [T : outcomes, U : outcomes, V : outcomes] :
          /\ SolverConsistent(schedule, solved)
          /\ response' = SuccessResponse(params, schedule, solved)
    /\ pc' = "done"
    /\ UNCHANGED << params, p, balance, schedule, lookup, payment >>

\* What npf.irr may answer: no root, or a rate of 0.01 per period.
SolverOutcomes == { [kind |-> "nan", rate |-> 0], [kind |-> "rate", rate |-> 5000000] }

Next ==
    \/ CalculateReject
    \/ CalculateBegin
    \/ BuildRow
    \/ CalculateRespond(SolverOutcomes)

Spec == Init /\ [][Next]_vars

(***************************************************************************)
(* The yield decomposition under a finer set of solver outcomes: the same  *)
(* handler on a few requests, npf.irr answering with no root, an           *)
(* exception, or rates that are not multiples of the rounding step.        *)
(***************************************************************************)
SolverOutcomesFine ==
    { [kind |-> "nan", rate |-> 0], [kind |-> "raise", rate |-> 0],
      [kind |-> "rate", rate |-> 7], [kind |-> "rate", rate |-> 5000001],
      [kind |-> "rate", rate |-> -2500013] }

IrrParams ==
    { pr \in CompleteParams :
          /\ pr.loan_amount \in {0, 10000000}
          /\ pr.num_periods \in 1..2
          /\ pr.draw_period \in {0, 2}
          /\ pr.amortization_profile \in {"Bullet", "Ad-hoc"}
          /\ Len(pr.adhoc_table) <= 1 }

InitIrr ==
    /\ params \in IrrParams
    /\ pc = "request"
    /\ p = 0
    /\ balance = 0
    /\ schedule = <<>>
    /\ response = Pending
    /\ lookup = NoLookup
    /\ payment = 0

NextIrr ==
    \/ CalculateBegin
    \/ BuildRow
    \/ CalculateRespond(SolverOutcomesFine)

SpecIrr == InitIrr /\ [][NextIrr]_vars

(***************************************************************************)
(* adhoc_payment as a pure function: one call on a bounded table.          *)
(***************************************************************************)
AdhocTables == SeqUpTo([month : {0, 6, 12}, value : {50, 100}], MaxTableLen)

IdleParams ==
    MakeParams(0, 0, 0, "Monthly", DisbursementDate,
               CHOOSE rp \in RatePlans : rp.absent = {},
               CHOOSE fp \in FeePlans : fp.absent = {},
               CHOOSE pp \in ProfilePlans : pp.amortization_profile = "Bullet", {})

InitAdhoc ==
    /\ lookup \in [ loan_amount : {10000000, 10000002},
                    period_months : {0, 3, 6, 9, 12},
                    adhoc_table : AdhocTables,
                    use_percent : BOOLEAN ]
    /\ payment = 0
    /\ pc = "lookup"
    /\ params = IdleParams
    /\ p = 0
    /\ balance = 0
    /\ schedule = <<>>
    /\ response = Pending

AdhocLookup ==
    /\ pc = "lookup"
    /\ payment' = adhoc_payment(lookup.loan_amount, lookup.period_months,
                                lookup.adhoc_table, lookup.use_percent)
    /\ pc' = "looked"
    /\ UNCHANGED << params, p, balance, schedule, response, lookup >>

NextAdhoc == AdhocLookup

SpecAdhoc == InitAdhoc /\ [][NextAdhoc]_vars

(***************************************************************************)
(* Properties.                                                             *)
(***************************************************************************)
\* The handler has answered with a success payload.
Responded == pc = "done" /\ response.success

\* Valid LoanTerms (spec section 3).
ValidTerms ==
    /\ params.loan_amount > 0
    /\ params.num_periods >= 0
    /\ params.draw_period <= params.num_periods
    /\ params.amortization_profile \in Profiles

FinalRow == schedule[Len(schedule)]

\* The loan amount is a multiple of 0.000001: round(., 6) leaves it as it is.
LoanIsRounded == Round6(params.loan_amount) = params.loan_amount

\* C1: for valid LoanTerms the schedule has num_periods + 1 rows indexed
\* 0..num_periods, row 0 begins at 0 and ends at loan_amount, and no row has
\* a negative ending balance.
C1_ScheduleShape ==
    ValidTerms =>
        /\ \A i \in 1..Len(schedule) :
              /\ schedule[i].period = i - 1
              /\ schedule[i].ending_bal >= 0
        /\ Len(schedule) >= 1 =>
              /\ schedule[1].beginning_bal = 0
              /\ schedule[1].ending_bal = params.loan_amount
        /\ Responded => Len(schedule) = params.num_periods + 1

C1_Witness ==
    /\ Responded
    /\ ValidTerms
    /\ params.num_periods = 3
    /\ params.amortization_profile = "Ad-hoc"
    /\ \E i \in 1..Len(schedule) :
          /\ schedule[i].amortization > 0
          /\ schedule[i].ending_bal > 0

\* C2 as claimed: for Bullet and every valid LoanTerms, num_periods = 0
\* included, amortization is 0 except in the final row, where it equals the
\* beginning balance exactly, and the final ending balance is 0.
C2_BulletAsClaimed ==
    (Responded /\ ValidTerms /\ params.amortization_profile = "Bullet") =>
        /\ \A i \in 1..Len(schedule) :
              schedule[i].period # params.num_periods => schedule[i].amortization = 0
        /\ FinalRow.amortization = FinalRow.beginning_bal
        /\ FinalRow.ending_bal = 0

\* C2 amended: for Bullet and valid LoanTerms with num_periods >= 1,
\* amortization is 0 except in the final row, where it is the beginning
\* balance rounded to 6 decimals, and the final ending balance is 0.
C2_BulletPayoff ==
    (Responded /\ ValidTerms /\ params.amortization_profile = "Bullet"
              /\ params.num_periods >= 1) =>
        /\ \A i \in 1..Len(schedule) :
              schedule[i].period # params.num_periods => schedule[i].amortization = 0
        /\ FinalRow.amortization = Round6(FinalRow.beginning_bal)
        /\ FinalRow.ending_bal = 0

C2_Witness ==
    /\ Responded
    /\ ValidTerms
    /\ params.amortization_profile = "Bullet"
    /\ params.num_periods = 1
    /\ FinalRow.amortization # FinalRow.beginning_bal
    /\ FinalRow.amortization > 0

\* C3 as claimed, on schedules with at least one repayment period and a
\* loan amount of 6 decimals: for Mortgage and valid LoanTerms (draw_period
\* any integer <= num_periods) the final period repays its whole beginning
\* balance and ends at 0.
C3_MortgageFinalPayoff ==
    (Responded /\ ValidTerms /\ params.amortization_profile = "Mortgage"
              /\ params.num_periods >= 1 /\ LoanIsRounded) =>
        /\ FinalRow.amortization = FinalRow.beginning_bal
        /\ FinalRow.ending_bal = 0

\* C4 as claimed, for a positive loan amount: for Mortgage with
\* mortgage_rate = 0 and n_amort > 0, every period strictly between
\* draw_period and num_periods amortizes loan_amount / n_amort (as stored, to
\* 6 decimals), for every n_amort, draw_period and num_periods.
C4_LevelAsClaimed ==
    (Responded /\ params.amortization_profile = "Mortgage"
              /\ params.mortgage_rate = 0 /\ n_amort(params) > 0
              /\ params.loan_amount > 0) =>
        \A i \in 1..Len(schedule) :
            (params.draw_period < schedule[i].period
                 /\ schedule[i].period < params.num_periods) =>
                schedule[i].amortization
                    = Round6(DivRound(params.loan_amount, n_amort(params)))

\* C4 amended: for Mortgage with mortgage_rate = 0, n_amort > 0 and a
\* positive loan amount, every period strictly between draw_period and
\* num_periods amortizes min(loan_amount / n_amort, beginning balance),
\* rounded to 6 decimals; when num_periods >= 1 and draw_period <
\* num_periods the final period repays the remaining balance.
C4_LevelCapped ==
    (Responded /\ params.amortization_profile = "Mortgage"
              /\ params.mortgage_rate = 0 /\ n_amort(params) > 0
              /\ params.loan_amount > 0) =>
        /\ \A i \in 1..Len(schedule) :
              (params.draw_period < schedule[i].period
                   /\ schedule[i].period < params.num_periods) =>
                  schedule[i].amortization
                      = Round6(Min(DivRound(params.loan_amount, n_amort(params)),
                                   schedule[i].beginning_bal))
        /\ (params.num_periods >= 1 /\ params.draw_period < params.num_periods) =>
              /\ FinalRow.amortization = Round6(FinalRow.beginning_bal)
              /\ FinalRow.ending_bal = 0

C4_Witness ==
    /\ Responded
    /\ params.amortization_profile = "Mortgage"
    /\ params.mortgage_rate = 0
    /\ n_amort(params) > 0
    /\ params.loan_amount > 0
    /\ \E i, j \in 1..Len(schedule) :
          /\ params.draw_period < schedule[i].period
          /\ schedule[i].period < schedule[j].period
          /\ schedule[j].period < params.num_periods
          /\ schedule[i].amortization > 0
          /\ schedule[j].amortization < schedule[i].amortization

\* The input validation failures of spec sections 6 and 7.
InvalidInput ==
    \/ \E i \in 1..Len(RequiredKeys) : RequiredKeys[i] \in params.absent
    \/ params.frequency \notin Frequencies
    \/ params.amortization_profile \notin Profiles
    \/ ~parse_date_ok(params.disbursement_date)

\* C5, on requests for a positive loan over at least one period: every
\* input validation failure (missing required field, unknown frequency,
\* unknown amortization_profile, unparseable date) is answered with a
\* failure response, never with a success payload.
C5_InvalidInputFails ==
    (pc = "done" /\ InvalidInput /\ params.loan_amount > 0
                /\ params.num_periods >= 1) =>
        ~response.success

\* C9 as claimed: for Bullet and Mortgage the commitment fee is 0 in every
\* row, whatever the commitment_fee_rate and draw_period.
C9_NoFeeAsClaimed ==
    params.amortization_profile \in {"Bullet", "Mortgage"} =>
        \A i \in 1..Len(schedule) : schedule[i].commitment_fee = 0

\* C9 amended: when the loan amount is a multiple of 0.000001, a row has a
\* non-zero commitment fee only in the Ad-hoc profile, within the draw
\* period and after a row that repaid principal; for Bullet and Mortgage
\* the fee is 0 in every row.
C9_FeeOnlyAfterRepayment ==
    LoanIsRounded =>
        \A i \in 1..Len(schedule) :
            schedule[i].commitment_fee # 0 =>
                /\ params.amortization_profile = "Ad-hoc"
                /\ schedule[i].period <= params.draw_period
                /\ \E j \in 1..(i - 1) : schedule[j].amortization > 0

C9_Witness ==
    /\ Responded
    /\ LoanIsRounded
    /\ params.loan_amount > 0
    /\ params.amortization_profile \in {"Bullet", "Mortgage"}
    /\ params.commitment_fee_rate > 0
    /\ "commitment_fee_rate" \notin params.absent
    /\ params.draw_period >= 2
    /\ params.num_periods >= 2

\* C10 as claimed: validate on any schedule build_schedule produced, with
\* the same loan_amount, answers draw_status "OK" and balance_ok true.
C10_NoFlagAsClaimed ==
    Responded =>
        /\ response.validation.draw_status = "OK"
        /\ response.validation.balance_ok

\* C10 amended: for a loan_amount >= 0, validate on the schedule
\* build_schedule produced answers draw_status "OK" and balance_ok true.
C10_NoFlagNonNegativeLoan ==
    (Responded /\ params.loan_amount >= 0) =>
        /\ response.validation.draw_status = "OK"
        /\ response.validation.balance_ok

C10_Witness ==
    /\ Responded
    /\ params.loan_amount > 0
    /\ params.num_periods >= 2
    /\ response.validation.draw_status = "OK"
    /\ response.validation.balance_ok
    /\ \E i \in 1..Len(schedule) : schedule[i].amortization > 0

(***************************************************************************)
(* Properties of adhoc_payment (under SpecAdhoc).                          *)
(***************************************************************************)
\* Every reordering of a table.
Reorderings(t) ==
    { [i \in 1..Len(t) |-> t[f[i]]] : f \in Permutations(1..Len(t)) }

Lookup(t) ==
    adhoc_payment(lookup.loan_amount, lookup.period_months, t, lookup.use_percent)

\* C6 as claimed: for any list of rows, every permutation of the table gives
\* the same payment.
C6_OrderIndependentAsClaimed ==
    pc = "looked" => \A t \in Reorderings(lookup.adhoc_table) : Lookup(t) = payment

\* No two rows of the table give one month two values.
OneValuePerMonth(t) ==
    \A i, j \in 1..Len(t) : t[i].month = t[j].month => t[i].value = t[j].value

\* C6 amended: for a table in which no two rows give the same month
\* different values, every permutation of the table gives the same payment.
C6_OrderIndependent ==
    (pc = "looked" /\ OneValuePerMonth(lookup.adhoc_table)) =>
        \A t \in Reorderings(lookup.adhoc_table) : Lookup(t) = payment

C6_Witness ==
    /\ pc = "looked"
    /\ Len(lookup.adhoc_table) = 3
    /\ OneValuePerMonth(lookup.adhoc_table)
    /\ lookup.adhoc_table[1].month > lookup.adhoc_table[2].month
    /\ lookup.adhoc_table[3].month < lookup.adhoc_table[2].month
    /\ payment # 0

\* The rows whose month is the largest one not after the queried offset.
Applicable(t, offset) ==
    { i \in 1..Len(t) :
          /\ t[i].month <= offset
          /\ \A j \in 1..Len(t) : t[j].month <= offset => t[j].month <= t[i].month }

\* A table value as a currency amount.
AsAmount(value) ==
    IF lookup.use_percent THEN DivRound(value * lookup.loan_amount, 100) ELSE value

\* C7: adhoc_payment is a step function: the value of a breakpoint with the
\* largest month <= the queried offset, as value * loan_amount / 100 when
\* use_percent and raw otherwise; 0 when there is no such breakpoint.
C7_StepFunction ==
    pc = "looked" =>
        IF Applicable(lookup.adhoc_table, lookup.period_months) = {}
        THEN payment = 0
        ELSE payment \in { AsAmount(lookup.adhoc_table[i].value) :
                               i \in Applicable(lookup.adhoc_table, lookup.period_months) }

C7_Witness ==
    /\ pc = "looked"
    /\ lookup.use_percent
    /\ lookup.period_months = 9
    /\ Len(lookup.adhoc_table) = 3
    /\ \E i \in 1..3 : lookup.adhoc_table[i].month = 12
    /\ \E i \in 1..3 : lookup.adhoc_table[i].month = 0
    /\ lookup.adhoc_table[1] = [month |-> 6, value |-> 50]
    /\ payment = 5000000

(***************************************************************************)
(* The yield decomposition (under SpecIrr).                                *)
(***************************************************************************)
ComponentSum ==
    response.irr.ir_spread + response.irr.upfront_impact
        + response.irr.commitment_impact

\* C8: all_in_margin = ir_spread + upfront_impact + commitment_impact within
\* 0.0001 (500 ticks of a percentage), whatever npf.irr answered for each of
\* the three series, a fallback to 0 included.
C8_AdditiveDecomposition ==
    Responded => Abs(response.irr.all_in_margin - ComponentSum) <= 500

C8_Witness ==
    /\ Responded
    /\ response.irr.ir_spread = 0
    /\ response.irr.upfront_impact # 0
    /\ response.irr.commitment_impact # 0
    /\ response.irr.all_in_margin # ComponentSum

====
